---- MODULE Spec2Model ----
(***************************************************************************)
(* pipewire-sample-rate-switcher (src/src/main.rs): one invocation parses  *)
(* the allowed rates from a marked block of the sway config, reads the     *)
(* current rate from 99-samplerate.conf, writes the cyclic successor and   *)
(* restarts the PipeWire stack.  Text is modelled as sequences of          *)
(* one-character strings so that the regex scans, str::parse and           *)
(* to_string are computed rather than assumed.                             *)
(***************************************************************************)
EXTENDS Integers, Sequences, FiniteSets, TLC

VARIABLES sway_config, conf_file, pc, show, options, current_file, next,
          cmds, ok_pw, ok_wp, restart_result, exit_code, notified,
          file_before, write_result

vars == <<sway_config, conf_file, pc, show, options, current_file, next,
          cmds, ok_pw, ok_wp, restart_result, exit_code, notified,
          file_before, write_result>>

(* ------------------------- bounds ------------------------- *)

MaxLines == 4
MaxTokens == 3
MaxRate == 4

(* ------------------------- characters ------------------------- *)

DigitChars == <<"0", "1", "2", "3", "4", "5", "6", "7", "8", "9">>

Digits == {DigitChars[i] : i \in 1..10}

DigitVal(c) == (CHOOSE i \in 1..10 : DigitChars[i] = c) - 1

Min(a, b) == IF a < b THEN a ELSE b

\* str::parse::<u32> on a string of at most five decimal digits
RECURSIVE parse_u32(_)
parse_u32(s) ==
    IF s = <<>> THEN 0
    ELSE 10 * parse_u32(SubSeq(s, 1, Len(s) - 1)) + DigitVal(s[Len(s)])

\* u32::to_string / Display: decimal, no padding
RECURSIVE to_string(_)
to_string(n) ==
    IF n < 10 THEN <<DigitChars[n + 1]>>
    ELSE to_string(n \div 10) \o <<DigitChars[(n % 10) + 1]>>

\* number of consecutive digit characters of s starting at position p
RECURSIVE DigitRun(_, _)
DigitRun(s, p) ==
    IF p > Len(s) \/ s[p] \notin Digits THEN 0 ELSE 1 + DigitRun(s, p + 1)

\* Regex (\d{4,5}) captures_iter: leftmost, greedy, non-overlapping matches
RECURSIVE captures_iter_from(_, _)
captures_iter_from(s, p) ==
    IF p > Len(s) THEN <<>>
    ELSE LET run == DigitRun(s, p) IN
         IF run >= 4
         THEN LET k == Min(run, 5) IN
              <<SubSeq(s, p, p + k - 1)>> \o captures_iter_from(s, p + k)
         ELSE captures_iter_from(s, p + 1)

captures_iter(s) == captures_iter_from(s, 1)

(* ------------------------- Vec helpers ------------------------- *)

RECURSIVE insert_sorted(_, _)
insert_sorted(x, s) ==
    IF s = <<>> THEN <<x>>
    ELSE IF x <= s[1] THEN <<x>> \o s
    ELSE <<s[1]>> \o insert_sorted(x, Tail(s))

RECURSIVE sort_unstable(_)
sort_unstable(s) ==
    IF s = <<>> THEN <<>> ELSE insert_sorted(s[1], sort_unstable(Tail(s)))

\* Vec::dedup: removes consecutive repeated elements
RECURSIVE dedup(_)
dedup(s) ==
    IF Len(s) <= 1 THEN s
    ELSE IF s[1] = s[2] THEN dedup(Tail(s))
    ELSE <<s[1]>> \o dedup(Tail(s))

\* Iterator::position over the sequence of the predicate's values, 1-based;
\* 0 when no element satisfies the predicate
position(hits) ==
    IF \E i \in 1..Len(hits) : hits[i]
    THEN CHOOSE i \in 1..Len(hits) : hits[i] /\ \A j \in 1..(i - 1) : ~hits[j]
    ELSE 0

Range(s) == {s[i] : i \in 1..Len(s)}

StrictlyIncreasing(s) == \A i \in 1..(Len(s) - 1) : s[i] < s[i + 1]

(* ------------------------- Rate cycler ------------------------- *)

next_rate_nowrap(opts, current) ==
    LET i == position([k \in 1..Len(opts) |-> opts[k] = current]) IN
    IF i # 0 THEN opts[Min(i + 1, Len(opts))] ELSE opts[1]

next_rate_skip(opts, current) ==
    LET i == position([k \in 1..Len(opts) |-> opts[k] = current]) IN
    IF i # 0 THEN opts[((i + 1) % Len(opts)) + 1] ELSE opts[1]

\* options[(i + 1) % options.len()] with 0-based i is opts[(i % len) + 1]
\* with 1-based i
next_rate(opts, current) ==
    LET i == position([k \in 1..Len(opts) |-> opts[k] = current]) IN
    IF i # 0 THEN opts[(i % Len(opts)) + 1] ELSE opts[1]

(* ------------------------- Parsing ------------------------- *)

\* A line of the sway config: kind records which of the literal tests of
\* parse_options_from_sway the line passes (contains the start marker,
\* contains the end marker, starts with "# Sample Rate Options =" after
\* trim_start, none of them); text is what follows the "=" on an options
\* line, character by character.
Kinds == {"start", "end", "opts", "other"}

Line(k, t) == [kind |-> k, text |-> IF k = "opts" THEN t ELSE <<>>]

Panic(msg) == [ok |-> FALSE, options |-> <<>>, err |-> msg]

parse_matches(opt_line) ==
    LET caps == captures_iter(opt_line.text) IN
    [i \in 1..Len(caps) |-> parse_u32(caps[i])]

parse_finish_nodedup(found) ==
    [ok |-> TRUE, options |-> sort_unstable(found), err |-> ""]

parse_finish(found) ==
    [ok |-> TRUE, options |-> dedup(sort_unstable(found)), err |-> ""]

parse_options_lenient(lines) ==
    LET start_idx == position([k \in 1..Len(lines) |-> lines[k].kind = "start"])
        end_idx == position([k \in 1..Len(lines) |-> lines[k].kind = "end"])
    IN
    IF start_idx = 0 \/ end_idx = 0 \/ end_idx <= start_idx
    THEN parse_finish(<<44100, 48000>>)
    ELSE LET block == SubSeq(lines, start_idx, end_idx)
             o == position([k \in 1..Len(block) |-> block[k].kind = "opts"])
         IN
         IF o = 0 THEN parse_finish(<<44100, 48000>>)
         ELSE LET found == parse_matches(block[o]) IN
              IF found = <<>> THEN parse_finish(<<44100, 48000>>)
              ELSE parse_finish(found)

parse_options_from_sway(lines) ==
    LET start_idx == position([k \in 1..Len(lines) |-> lines[k].kind = "start"])
        end_idx == position([k \in 1..Len(lines) |-> lines[k].kind = "end"])
    IN
    IF start_idx = 0 THEN Panic("start marker not found")
    ELSE IF end_idx = 0 THEN Panic("end marker not found")
    ELSE IF end_idx <= start_idx THEN Panic("end before start")
    ELSE LET block == SubSeq(lines, start_idx, end_idx)
             o == position([k \in 1..Len(block) |-> block[k].kind = "opts"])
         IN
         IF o = 0 THEN Panic("options line not found")
         ELSE LET found == parse_matches(block[o]) IN
              IF found = <<>> THEN Panic("no numbers on options line")
              ELSE parse_finish(found)

(* ------------------------- File read/write ------------------------- *)

\* 99-samplerate.conf: kind is "absent", "unreadable", "nokey" (text without
\* a default.clock.rate assignment), "foreign" (text with one, written by
\* somebody else) or "canonical" (written by this program); rate is the text
\* that follows `default.clock.rate =`, allowed the bracketed list.
File(k, r, a) == [kind |-> k, rate |-> r, allowed |-> a]

None == [some |-> FALSE, val |-> 0]

Some(v) == [some |-> TRUE, val |-> v]

unwrap_or_zero(opt, d) == IF opt.some THEN opt.val ELSE 0

unwrap_or(opt, d) == IF opt.some THEN opt.val ELSE d

\* Regex default\.clock\.rate\s*=\s*"?(\d{4,5})"? : the capture must begin
\* where the value begins
read_rate_from_file(f) ==
    IF f.kind \in {"foreign", "canonical"} /\ DigitRun(f.rate, 1) >= 4
    THEN Some(parse_u32(SubSeq(f.rate, 1, Min(DigitRun(f.rate, 1), 5))))
    ELSE None

\* the text handed to fs::write
write_canonical_samplerate_conf(new_rate, allowed_all) ==
    LET v == dedup(sort_unstable(allowed_all)) IN
    File("canonical", to_string(new_rate), [i \in 1..Len(v) |-> to_string(v[i])])

\* fs::write that failed after File::create truncated the file
Truncated == File("nokey", <<>>, <<>>)

(* ------------------------- inputs ------------------------- *)

RECURSIVE Join(_, _)
Join(tokens, sep) ==
    IF tokens = <<>> THEN <<>>
    ELSE sep \o tokens[1] \o Join(Tail(tokens), sep)

SeqsUpTo(S, n) == UNION {[1..k -> S] : k \in 0..n}

N44100 == <<"4", "4", "1", "0", "0">>

N48000 == <<"4", "8", "0", "0", "0">>

Separators == {<<" ">>, <<",", " ">>}

Numerals ==
    { <<"8", "0", "0", "0">>, N44100, N48000,
      <<"1", "9", "2", "0", "0", "0">>, <<"4", "4", "1">> }

Payloads(numerals, seps) ==
    {Join(toks, sep) : toks \in SeqsUpTo(numerals, MaxTokens), sep \in seps}

Config(layout, payload, readable) ==
    [readable |-> readable,
     lines |-> [i \in 1..Len(layout) |-> Line(layout[i], payload)]]

GoodPayload == Join(<<N44100, N48000>>, <<",", " ">>)

ProbePayloads ==
    { GoodPayload,
      Join(<<(<<"1", "9", "2", "0", "0", "0">>), N48000>>, <<" ">>),
      Join(<<(<<"4", "4", "1">>)>>, <<" ">>) }

BlockLayouts ==
    {<<"start", "opts", "end">>, <<"start", "other", "opts", "end">>}

\* every layout with a few option lines, a few layouts with every option line
ParseConfigs ==
    {Config(layout, payload, TRUE) :
        layout \in SeqsUpTo(Kinds, MaxLines), payload \in ProbePayloads}
    \cup
    {Config(layout, payload, TRUE) :
        layout \in BlockLayouts, payload \in Payloads(Numerals, Separators)}

MainNumerals ==
    {<<"0", "0", "4", "4">>, <<"0", "0", "5", "5">>, N44100, N48000}

\* option lines listing the rates in increasing order
MainPayloads ==
    {Join(toks, <<",", " ">>) :
        toks \in {t \in SeqsUpTo(MainNumerals, MaxTokens) :
                     StrictlyIncreasing([i \in 1..Len(t) |-> parse_u32(t[i])])}}

MainConfigs ==
    {Config(layout, GoodPayload, TRUE) : layout \in SeqsUpTo(Kinds, MaxLines)}
    \cup
    {Config(<<"start", "opts", "end">>, payload, TRUE) :
        payload \in MainPayloads \cup ProbePayloads}
    \cup
    {Config(<<"start", "opts", "end">>, GoodPayload, FALSE)}

InitialFiles ==
    { File("absent", <<>>, <<>>), File("unreadable", <<>>, <<>>),
      File("nokey", <<>>, <<>>),
      File("foreign", N48000, <<>>),
      File("foreign", <<"9", "6", "0", "0", "0">>, <<>>) }

(* ------------------------- main ------------------------- *)

Cmd(c, r) == [cmd |-> c, result |-> r]

Outcomes == {"ok", "fail", "execfail"}

Init ==
    /\ sway_config \in MainConfigs
    /\ conf_file \in InitialFiles
    /\ pc = "idle"
    /\ show = FALSE
    /\ options = <<>>
    /\ current_file = 0
    /\ next = 0
    /\ cmds = <<>>
    /\ ok_pw = FALSE
    /\ ok_wp = FALSE
    /\ restart_result = "none"
    /\ exit_code = -1
    /\ notified = "none"
    /\ file_before = conf_file
    /\ write_result = "none"

\* a new invocation of the program: argument parsing and path resolution
StartRun ==
    /\ pc \in {"idle", "exited"}
    /\ \E sh \in BOOLEAN : show' = sh
    /\ pc' = "parse"
    /\ options' = <<>>
    /\ current_file' = 0
    /\ next' = 0
    /\ cmds' = <<>>
    /\ ok_pw' = FALSE
    /\ ok_wp' = FALSE
    /\ restart_result' = "none"
    /\ exit_code' = -1
    /\ notified' = "none"
    /\ file_before' = conf_file
    /\ write_result' = "none"
    /\ UNCHANGED <<sway_config, conf_file>>

\* fs::read_to_string(&sway_config) and parse_options_from_sway; a panic
\* ends the process with status 101
ParseConfig ==
    /\ pc = "parse"
    /\ LET r == IF sway_config.readable
                THEN parse_options_from_sway(sway_config.lines)
                ELSE Panic("failed to read sway config")
       IN IF r.ok
          THEN /\ options' = r.options
               /\ pc' = "read_current"
               /\ UNCHANGED exit_code
          ELSE /\ exit_code' = 101
               /\ pc' = "exited"
               /\ UNCHANGED options
    /\ UNCHANGED <<sway_config, conf_file, show, current_file, next, cmds,
                   ok_pw, ok_wp, restart_result, notified, file_before, write_result>>

show_branch_ignored(sh) == "compute"

\* if matches.get_flag("show") { ...; return; }
show_branch(sh) == IF sh THEN "show" ELSE "compute"

ReadCurrent ==
    /\ pc = "read_current"
    /\ current_file' = unwrap_or(read_rate_from_file(conf_file), options[1])
    /\ pc' = show_branch(show)
    /\ UNCHANGED <<sway_config, conf_file, show, options, next, cmds, ok_pw,
                   ok_wp, restart_result, exit_code, notified, file_before, write_result>>

\* --show: print, query pw-metadata (read_graph_rate_quick), return
ShowMode ==
    /\ pc = "show"
    /\ \E r \in Outcomes : cmds' = Append(cmds, Cmd("pw-metadata -n settings 0 clock.rate", r))
    /\ exit_code' = 0
    /\ pc' = "exited"
    /\ UNCHANGED <<sway_config, conf_file, show, options, current_file, next,
                   ok_pw, ok_wp, restart_result, notified, file_before, write_result>>

ComputeNext ==
    /\ pc = "compute"
    /\ next' = next_rate(options, current_file)
    /\ pc' = "write"
    /\ UNCHANGED <<sway_config, conf_file, show, options, current_file, cmds,
                   ok_pw, ok_wp, restart_result, exit_code, notified,
                   file_before, write_result>>

\* write_canonical_samplerate_conf: create_dir_all or fs::write may fail; a
\* failed fs::write may already have truncated the file
WriteConf ==
    /\ pc = "write"
    /\ \/ /\ conf_file' = write_canonical_samplerate_conf(next, options)
          /\ write_result' = "Ok"
          /\ pc' = "restart"
       \/ /\ conf_file' \in {conf_file, Truncated}
          /\ write_result' = "Err"
          /\ pc' = "write_failed"
    /\ UNCHANGED <<sway_config, show, options, current_file, next, cmds, ok_pw,
                   ok_wp, restart_result, exit_code, notified, file_before>>

\* notify_err (result discarded), eprintln, exit(1)
ReportWriteFailure ==
    /\ pc = "write_failed"
    /\ \E delivered \in BOOLEAN :
          notified' = IF delivered THEN "err_shown" ELSE "err_lost"
    /\ exit_code' = 1
    /\ pc' = "exited"
    /\ UNCHANGED <<sway_config, conf_file, show, options, current_file, next,
                   cmds, ok_pw, ok_wp, restart_result, file_before, write_result>>

(* ------------------------- Restart helpers ------------------------- *)

RestartAll == "systemctl --user restart pipewire.service pipewire-pulse.service wireplumber.service"

StopSocket == "systemctl --user stop pipewire.socket"

StartPipewire == "systemctl --user start pipewire.service"

StartSocket == "systemctl --user start pipewire.socket"

RestartWireplumber == "systemctl --user restart wireplumber.service"

FallbackSequence == <<StopSocket, StartPipewire, StartSocket, RestartWireplumber>>

\* .status().map(|s| s.success()).unwrap_or(false)
success_or_false(r) == r = "ok"

fallback_verdict_any(pw, wp) == IF pw \/ wp THEN "Ok" ELSE "Err"

\* if ok_pw && ok_wp { Ok(()) } else { Err(..) }
fallback_verdict(pw, wp) == IF pw /\ wp THEN "Ok" ELSE "Err"

first_choice_no_fallback(r) ==
    IF r = "ok" THEN [result |-> "Ok", pc |-> "after_restart"]
    ELSE [result |-> "Err", pc |-> "after_restart"]

\* the first systemctl call: `?` returns Err when it cannot be executed,
\* success returns Ok, any other exit status falls through to the fallback
first_choice(r) ==
    IF r = "execfail" THEN [result |-> "Err", pc |-> "after_restart"]
    ELSE IF r = "ok" THEN [result |-> "Ok", pc |-> "after_restart"]
    ELSE [result |-> "none", pc |-> "fb_stop_socket"]

RestartFirst ==
    /\ pc = "restart"
    /\ \E r \in Outcomes :
          /\ cmds' = Append(cmds, Cmd(RestartAll, r))
          /\ restart_result' = first_choice(r).result
          /\ pc' = first_choice(r).pc
    /\ UNCHANGED <<sway_config, conf_file, show, options, current_file, next,
                   ok_pw, ok_wp, exit_code, notified, file_before, write_result>>

FallbackStopSocket ==
    /\ pc = "fb_stop_socket"
    /\ \E r \in Outcomes : cmds' = Append(cmds, Cmd(StopSocket, r))
    /\ pc' = "fb_start_pipewire"
    /\ UNCHANGED <<sway_config, conf_file, show, options, current_file, next,
                   ok_pw, ok_wp, restart_result, exit_code, notified,
                   file_before, write_result>>

FallbackStartPipewire ==
    /\ pc = "fb_start_pipewire"
    /\ \E r \in Outcomes :
          /\ cmds' = Append(cmds, Cmd(StartPipewire, r))
          /\ ok_pw' = success_or_false(r)
    /\ pc' = "fb_start_socket"
    /\ UNCHANGED <<sway_config, conf_file, show, options, current_file, next,
                   ok_wp, restart_result, exit_code, notified, file_before, write_result>>

FallbackStartSocket ==
    /\ pc = "fb_start_socket"
    /\ \E r \in Outcomes : cmds' = Append(cmds, Cmd(StartSocket, r))
    /\ pc' = "fb_restart_wireplumber"
    /\ UNCHANGED <<sway_config, conf_file, show, options, current_file, next,
                   ok_pw, ok_wp, restart_result, exit_code, notified,
                   file_before, write_result>>

FallbackRestartWireplumber ==
    /\ pc = "fb_restart_wireplumber"
    /\ \E r \in Outcomes :
          /\ cmds' = Append(cmds, Cmd(RestartWireplumber, r))
          /\ ok_wp' = success_or_false(r)
    /\ pc' = "fb_verdict"
    /\ UNCHANGED <<sway_config, conf_file, show, options, current_file, next,
                   ok_pw, restart_result, exit_code, notified, file_before, write_result>>

FallbackVerdict ==
    /\ pc = "fb_verdict"
    /\ restart_result' = fallback_verdict(ok_pw, ok_wp)
    /\ pc' = "after_restart"
    /\ UNCHANGED <<sway_config, conf_file, show, options, current_file, next,
                   cmds, ok_pw, ok_wp, exit_code, notified, file_before, write_result>>

\* Err(e): notify_err (result discarded), eprintln, exit(1)
ReportRestartFailure ==
    /\ pc = "after_restart"
    /\ restart_result = "Err"
    /\ \E delivered \in BOOLEAN :
          notified' = IF delivered THEN "err_shown" ELSE "err_lost"
    /\ exit_code' = 1
    /\ pc' = "exited"
    /\ UNCHANGED <<sway_config, conf_file, show, options, current_file, next,
                   cmds, ok_pw, ok_wp, restart_result, file_before, write_result>>

ReportSuccess_notify_checked ==
    /\ pc = "after_restart"
    /\ restart_result = "Ok"
    /\ \E delivered \in BOOLEAN :
          /\ notified' = IF delivered THEN "ok_shown" ELSE "ok_lost"
          /\ exit_code' = IF delivered THEN 0 ELSE 1
    /\ pc' = "exited"
    /\ UNCHANGED <<sway_config, conf_file, show, options, current_file, next,
                   cmds, ok_pw, ok_wp, restart_result, file_before, write_result>>

\* println, notify_ok (result discarded), return from main
ReportSuccess ==
    /\ pc = "after_restart"
    /\ restart_result = "Ok"
    /\ \E delivered \in BOOLEAN :
          notified' = IF delivered THEN "ok_shown" ELSE "ok_lost"
    /\ exit_code' = 0
    /\ pc' = "exited"
    /\ UNCHANGED <<sway_config, conf_file, show, options, current_file, next,
                   cmds, ok_pw, ok_wp, restart_result, file_before, write_result>>

Next ==
    \/ StartRun
    \/ ParseConfig
    \/ ReadCurrent
    \/ ShowMode
    \/ ComputeNext
    \/ WriteConf
    \/ ReportWriteFailure
    \/ RestartFirst
    \/ FallbackStopSocket
    \/ FallbackStartPipewire
    \/ FallbackStartSocket
    \/ FallbackRestartWireplumber
    \/ FallbackVerdict
    \/ ReportRestartFailure
    \/ ReportSuccess

Spec == Init /\ [][Next]_vars

(* ------------------------- next_rate in isolation ------------------------- *)

IncreasingSeqs ==
    {q \in SeqsUpTo(0..MaxRate, MaxRate + 1) : q # <<>> /\ StrictlyIncreasing(q)}

InitCycler ==
    /\ options \in IncreasingSeqs
    /\ current_file \in 0..(MaxRate + 1)
    /\ pc = "cycler_input"
    /\ next = 0
    /\ sway_config = Config(<<>>, <<>>, TRUE)
    /\ conf_file = File("absent", <<>>, <<>>)
    /\ show = FALSE
    /\ cmds = <<>>
    /\ ok_pw = FALSE
    /\ ok_wp = FALSE
    /\ restart_result = "none"
    /\ exit_code = -1
    /\ notified = "none"
    /\ file_before = conf_file
    /\ write_result = "none"

\* let next = next_rate(&options, current_file)
CyclerApply ==
    /\ pc = "cycler_input"
    /\ next' = next_rate(options, current_file)
    /\ pc' = "cycler_done"
    /\ UNCHANGED <<sway_config, conf_file, show, options, current_file, cmds,
                   ok_pw, ok_wp, restart_result, exit_code, notified,
                   file_before, write_result>>

\* the result becomes the current rate of the following call
CyclerFeed ==
    /\ pc = "cycler_done"
    /\ current_file' = next
    /\ pc' = "cycler_input"
    /\ UNCHANGED <<sway_config, conf_file, show, options, next, cmds, ok_pw,
                   ok_wp, restart_result, exit_code, notified, file_before,
                   write_result>>

NextCycler == CyclerApply \/ CyclerFeed

SpecCycler == InitCycler /\ [][NextCycler]_vars

(* --------------- parse_options_from_sway in isolation --------------- *)

InitParse ==
    /\ sway_config \in ParseConfigs
    /\ conf_file = File("absent", <<>>, <<>>)
    /\ pc = "parse"
    /\ show = FALSE
    /\ options = <<>>
    /\ current_file = 0
    /\ next = 0
    /\ cmds = <<>>
    /\ ok_pw = FALSE
    /\ ok_wp = FALSE
    /\ restart_result = "none"
    /\ exit_code = -1
    /\ notified = "none"
    /\ file_before = conf_file
    /\ write_result = "none"

SpecParse == InitParse /\ [][ParseConfig]_vars

(* ------------------------- properties ------------------------- *)

\* C1: for a non-empty strictly increasing sequence A, next_rate(A, current)
\* is the element after current, the first element when current is the last
\* one, and the first element when current does not occur in A.
C1_CyclicSuccessor ==
    pc = "cycler_done" =>
        /\ \A i \in 1..Len(options) :
              options[i] = current_file =>
                 next = IF i = Len(options) THEN options[1] ELSE options[i + 1]
        /\ current_file \notin Range(options) => next = options[1]

C1_Witness ==
    /\ pc = "cycler_done"
    /\ Len(options) >= 3
    /\ current_file = options[Len(options)]
    /\ next = options[1]

RECURSIVE Iterate(_, _, _)
Iterate(A, r, k) == IF k = 0 THEN r ELSE next_rate(A, Iterate(A, r, k - 1))

\* C2: starting from a member r of A, len(A) applications of next_rate lead
\* back to r and no smaller positive number of applications does.
C2_CycleClosure ==
    current_file \in Range(options) =>
        /\ Iterate(options, current_file, Len(options)) = current_file
        /\ \A k \in 1..(Len(options) - 1) :
              Iterate(options, current_file, k) # current_file

C2_Witness ==
    /\ pc = "cycler_done"
    /\ Len(options) >= 3
    /\ current_file = options[2]
    /\ next = options[3]

\* the decimal value of a string of digits
RECURSIVE DecimalValueFrom(_, _)
DecimalValueFrom(s, acc) ==
    IF s = <<>> THEN acc ELSE DecimalValueFrom(Tail(s), 10 * acc + DigitVal(s[1]))

DecimalValue(s) == DecimalValueFrom(s, 0)

\* the integers listed on a line: its maximal runs of digits
ListedNumerals(text) ==
    {SubSeq(text, a, b) : <<a, b>> \in
        {ab \in (1..Len(text)) \X (1..Len(text)) :
            /\ ab[1] <= ab[2]
            /\ \A j \in ab[1]..ab[2] : text[j] \in Digits
            /\ (ab[1] = 1 \/ text[ab[1] - 1] \notin Digits)
            /\ (ab[2] = Len(text) \/ text[ab[2] + 1] \notin Digits)}}

IsFirst(lines, i, k) ==
    /\ lines[i].kind = k
    /\ \A j \in 1..(i - 1) : lines[j].kind # k

\* the first end-marker line comes after the first start-marker line and an
\* options line lies between them
WellFormed(lines) ==
    \E b \in 1..Len(lines), e \in 1..Len(lines) :
        /\ IsFirst(lines, b, "start")
        /\ IsFirst(lines, e, "end")
        /\ b < e
        /\ \E o \in b..e : lines[o].kind = "opts"

\* the text of the first options line of the block of a well-formed config
OptionsText(lines) ==
    LET b == CHOOSE i \in 1..Len(lines) : IsFirst(lines, i, "start")
        e == CHOOSE i \in 1..Len(lines) : IsFirst(lines, i, "end")
        o == CHOOSE i \in b..e :
                 /\ lines[i].kind = "opts"
                 /\ \A j \in b..(i - 1) : lines[j].kind # "opts"
    IN lines[o].text

ParsedAsListed ==
    /\ pc = "read_current"
    /\ options # <<>>
    /\ StrictlyIncreasing(options)
    /\ Range(options) =
          {DecimalValue(n) : n \in ListedNumerals(OptionsText(sway_config.lines))}

\* C3 as stated: with the markers in order and an options line listing one or
\* more integers, the parse returns exactly the listed values, increasing and
\* without duplicates.
C3_AnyIntegers ==
    (/\ pc # "parse"
     /\ WellFormed(sway_config.lines)
     /\ ListedNumerals(OptionsText(sway_config.lines)) # {})
    => ParsedAsListed

\* C3 amended: the same, when every listed integer is written with four or
\* five digits.
C3_FourOrFiveDigits ==
    (/\ pc # "parse"
     /\ WellFormed(sway_config.lines)
     /\ ListedNumerals(OptionsText(sway_config.lines)) # {}
     /\ \A n \in ListedNumerals(OptionsText(sway_config.lines)) : Len(n) \in {4, 5})
    => ParsedAsListed

C3_Witness ==
    /\ pc = "read_current"
    /\ WellFormed(sway_config.lines)
    /\ OptionsText(sway_config.lines) =
          Join(<<N48000, N44100, N48000>>, <<",", " ">>)
    /\ options = <<44100, 48000>>

\* no run of four or more digits on the line (a line without any digit
\* included)
NoRateOnLine(text) == \A n \in ListedNumerals(text) : Len(n) < 4

Malformed(lines) == ~WellFormed(lines) \/ NoRateOnLine(OptionsText(lines))

ServiceCommands ==
    {RestartAll, StopSocket, StartPipewire, StartSocket, RestartWireplumber}

\* C4: with a malformed config (a marker missing, the end marker not after
\* the start marker, no options line in the block, no rate on the options
\* line) a run ends by the panic before the samplerate file is written and
\* before any command is run; the file stays as it was.
C4_MalformedAborts ==
    Malformed(sway_config.lines) =>
        /\ conf_file = file_before
        /\ write_result = "none"
        /\ cmds = <<>>
        /\ pc \in {"idle", "parse", "exited"}
        /\ pc = "exited" => exit_code = 101

C4_Witness ==
    /\ pc = "exited"
    /\ ~show
    /\ sway_config.readable
    /\ WellFormed(sway_config.lines)
    /\ NoRateOnLine(OptionsText(sway_config.lines))
    /\ exit_code = 101

\* C5: a run in show mode leaves the samplerate file as it was and runs no
\* systemctl stop/start/restart command.
C5_ShowReadOnly ==
    show =>
        /\ conf_file = file_before
        /\ write_result = "none"
        /\ \A i \in 1..Len(cmds) : cmds[i].cmd \notin ServiceCommands

C5_Witness ==
    /\ show
    /\ pc = "exited"
    /\ exit_code = 0
    /\ Len(options) >= 2
    /\ cmds # <<>>

\* C6: a non-show run whose config parsed exits with 0 when the write and the
\* restart both succeeded and with 1 otherwise, whether or not the
\* notification was delivered.
C6_ExitCode ==
    (pc = "exited" /\ ~show /\ options # <<>>) =>
        exit_code = IF write_result = "Ok" /\ restart_result = "Ok" THEN 0 ELSE 1

C6_Witness ==
    /\ pc = "exited"
    /\ ~show
    /\ exit_code = 0
    /\ write_result = "Ok"
    /\ restart_result = "Ok"
    /\ notified = "ok_lost"

FallbackAttempted ==
    \A c \in Range(FallbackSequence) : \E i \in 1..Len(cmds) : cmds[i].cmd = c

\* C7 as stated: restart_pipewire_stack never reports failure without having
\* attempted the fallback sequence.
C7_FallbackBeforeFailure == restart_result = "Err" => FallbackAttempted

\* C7 amended: when the first-choice restart ran and exited unsuccessfully
\* the fallback sequence is attempted before failure is reported; failure is
\* reported without the fallback only when the first-choice systemctl could
\* not be executed.
C7_FallbackUnlessExecFails ==
    restart_result = "Err" =>
        \/ FallbackAttempted /\ cmds[1] = Cmd(RestartAll, "fail")
        \/ cmds = <<Cmd(RestartAll, "execfail")>>

C7_Witness ==
    /\ restart_result = "Err"
    /\ cmds[1] = Cmd(RestartAll, "fail")
    /\ Len(cmds) = 5
    /\ pc = "exited"

HasNoReadableRate(f) ==
    \/ f.kind \in {"absent", "unreadable", "nokey"}
    \/ Len(f.rate) < 4
    \/ \E j \in 1..4 : f.rate[j] \notin Digits

\* C8: a non-show run that finds no current rate in the samplerate file goes
\* on with the first allowed value as the current rate and, when its write
\* succeeds, persists A[1 mod len(A)]; whatever a non-show run writes is a
\* member of the allowed rates it parsed.
C8_UnknownCurrent ==
    /\ (/\ ~show
        /\ options # <<>>
        /\ pc # "read_current"
        /\ HasNoReadableRate(file_before))
       => /\ current_file = options[1]
          /\ exit_code # 101
          /\ write_result = "Ok" =>
                DecimalValue(conf_file.rate) = options[(1 % Len(options)) + 1]
    /\ (~show /\ write_result = "Ok")
       => /\ conf_file.kind = "canonical"
          /\ DecimalValue(conf_file.rate) \in Range(options)

C8_Witness ==
    /\ ~show
    /\ pc = "exited"
    /\ exit_code = 0
    /\ file_before.kind = "absent"
    /\ Len(options) = 3
    /\ DecimalValue(conf_file.rate) = options[2]

\* C9: the fallback commands come only after the first-choice restart ran and
\* failed, in the order stop socket, start pipewire, start socket, restart
\* wireplumber, all four whatever their outcomes; the result is Ok exactly
\* when the first choice succeeded or `start pipewire.service` and `restart
\* wireplumber.service` both did.
C9_FallbackPolicy ==
    (~show /\ cmds # <<>>) =>
        /\ cmds[1].cmd = RestartAll
        /\ Len(cmds) <= 5
        /\ \A i \in 2..Len(cmds) : cmds[i].cmd = FallbackSequence[i - 1]
        /\ Len(cmds) >= 2 => cmds[1].result = "fail"
        /\ restart_result # "none" =>
              /\ cmds[1].result = "fail" => Len(cmds) = 5
              /\ restart_result = "Ok" <=>
                    \/ cmds[1].result = "ok"
                    \/ /\ Len(cmds) = 5
                       /\ cmds[3].result = "ok"
                       /\ cmds[5].result = "ok"

C9_Witness ==
    /\ restart_result = "Ok"
    /\ Len(cmds) = 5
    /\ cmds[2].result = "fail"
    /\ cmds[4].result = "execfail"

HasPersistedRate(f) ==
    /\ f.kind \in {"foreign", "canonical"}
    /\ f.rate # <<>>
    /\ \A j \in 1..Len(f.rate) : f.rate[j] \in Digits

SuccessorIn(A, r) ==
    LET i == CHOOSE j \in 1..Len(A) : A[j] = r IN
    IF i = Len(A) THEN A[1] ELSE A[i + 1]

\* C10: a non-show run whose write succeeds leaves the persisted rate equal
\* to the cyclic successor, among the allowed rates, of the rate that was
\* persisted before the run.
C10_PersistedAdvances ==
    (/\ ~show
     /\ write_result = "Ok"
     /\ HasPersistedRate(file_before)
     /\ DecimalValue(file_before.rate) \in Range(options))
    => DecimalValue(conf_file.rate) =
          SuccessorIn(options, DecimalValue(file_before.rate))

====
